---------------------------- MODULE Spec2Model ----------------------------
(***************************************************************************)
(* A model of scripts/generate_api.py: the helpers that the sync and async *)
(* API generators use to project the implementation classes' reflected     *)
(* signatures onto wrapper source text.                                    *)
(*                                                                         *)
(* Text is a sequence of tokens.  A token is a maximal piece of a type's   *)
(* repr that the script's regular expressions and substring tests never    *)
(* split: a qualified name, "typing.Union[", ", ", "]", a literal value.   *)
(* The reprs are those of CPython 3.8, the version the script's patterns   *)
(* are written against (typing.Union[X, NoneType] for an optional X).      *)
(***************************************************************************)
EXTENDS Naturals, Sequences, FiniteSets, TLC

VARIABLES
    pc,         \* position of the run that the specification describes
    value,      \* the reflected type handed to process_type / return_value
    param,      \* process_type's param flag
    rendered,   \* process_type's result
    wrap,       \* return_value's result
    func,       \* the reflected method handed to signature / arguments
    sig_out,    \* signature's result
    arg_out,    \* arguments' result
    indent_arg, \* the indent handed to signature / arguments
    members,    \* reflection data of the registered classes
    idx,        \* position of the generator in all_types
    output      \* the blocks the generator has printed

vars == <<pc, value, param, rendered, wrap, func, sig_out, arg_out,
          indent_arg, members, idx, output>>

(***************************************************************************)
(* Bounds of the model.                                                    *)
(***************************************************************************)
MaxDepth == 2
MaxParams == 2
MaxIndent == 2
MaxMethods == 2

(***************************************************************************)
(* Type descriptors: what typing's reflection hands to the script.  Every  *)
(* node is a record [kind, name, args].                                    *)
(***************************************************************************)
Cls(n) == [kind |-> "class", name |-> n, args |-> <<>>]
NoneT == Cls("NoneType")
AnyT == [kind |-> "any", name |-> "typing.Any", args |-> <<>>]
Val(v) == [kind |-> "val", name |-> v, args |-> <<>>]
Lit(vs) == [kind |-> "literal", name |-> "", args |-> vs]
UnionT(as) == [kind |-> "union", name |-> "", args |-> as]
ListT(t) == [kind |-> "list", name |-> "", args |-> <<t>>]
DictT(k, v) == [kind |-> "dict", name |-> "", args |-> <<k, v>>]
CallableT(ps, r) == [kind |-> "callable", name |-> "", args |-> Append(ps, r)]

StrT == Cls("str")
IntT == Cls("int")
PageT == Cls("playwright.page.Page")
JSHandleT == Cls("playwright.js_handle.JSHandle")
ErrorT == Cls("playwright.helper.Error")
Lit1 == Lit(<<Val("'a'")>>)
Lit2 == Lit(<<Val("'a'"), Val("'b'")>>)

\* typing.Optional[t]: Union[t, None], flattened into t when t is a union.
Optional(t) ==
    IF t = NoneT THEN t
    ELSE IF t.kind = "union"
         THEN IF \E i \in DOMAIN t.args : t.args[i] = NoneT
              THEN t
              ELSE UnionT(Append(t.args, NoneT))
         ELSE UnionT(<<t, NoneT>>)

Atoms == {StrT, PageT, JSHandleT, ErrorT, AnyT, Lit1, Lit2}
UnionArms == {StrT, IntT, PageT, ErrorT, Lit2, NoneT}
Unions2 ==
    {UnionT(<<p[1], p[2]>>) : p \in {q \in UnionArms \X UnionArms : q[1] # q[2]}}

Composite(S) ==
    {ListT(t) : t \in S} \cup {DictT(StrT, t) : t \in S}
    \cup {CallableT(<<t>>, NoneT) : t \in S}
    \cup {Optional(t) : t \in S}

RECURSIVE TypesUpTo(_)
TypesUpTo(d) ==
    IF d = 0 THEN Atoms \cup {NoneT} \cup Unions2
    ELSE TypesUpTo(d - 1) \cup Composite(TypesUpTo(d - 1))


(***************************************************************************)
(* str(value) and typing's repr of a nested argument.                      *)
(***************************************************************************)
RECURSIVE JoinComma(_)
JoinComma(ss) ==
    IF Len(ss) = 0 THEN <<>>
    ELSE IF Len(ss) = 1 THEN ss[1]
    ELSE ss[1] \o <<", ">> \o JoinComma(Tail(ss))

RECURSIVE type_repr(_)
type_repr(t) ==
    LET reprs(as) == [i \in DOMAIN as |-> type_repr(as[i])]
    IN CASE t.kind = "class" -> <<t.name>>
         [] t.kind = "any" -> <<"typing.Any">>
         [] t.kind = "val" -> <<t.name>>
         [] t.kind = "literal" ->
                <<"typing.Literal[">> \o JoinComma(reprs(t.args)) \o <<"]">>
         [] t.kind = "union" ->
                <<"typing.Union[">> \o JoinComma(reprs(t.args)) \o <<"]">>
         [] t.kind = "list" ->
                <<"typing.List[">> \o type_repr(t.args[1]) \o <<"]">>
         [] t.kind = "dict" ->
                <<"typing.Dict[">> \o JoinComma(reprs(t.args)) \o <<"]">>
         [] t.kind = "callable" ->
                <<"typing.Callable[", "[">>
                \o JoinComma(reprs(SubSeq(t.args, 1, Len(t.args) - 1)))
                \o <<"]", ", ">> \o type_repr(t.args[Len(t.args)]) \o <<"]">>

\* str(value): a plain class prints as <class 'name'>, a typing form as its repr.
str(t) ==
    IF t.kind = "class" THEN <<"<class '", t.name, "'>">> ELSE type_repr(t)

(***************************************************************************)
(* Tokens the script's patterns and substring tests tell apart.            *)
(***************************************************************************)
\* "playwright.<module>.<Name>" |-> <Name>
bare_of ==
    ("playwright.network.Request" :> "Request")
    @@ ("playwright.network.Response" :> "Response")
    @@ ("playwright.network.Route" :> "Route")
    @@ ("playwright.input.Keyboard" :> "Keyboard")
    @@ ("playwright.input.Mouse" :> "Mouse")
    @@ ("playwright.js_handle.JSHandle" :> "JSHandle")
    @@ ("playwright.element_handle.ElementHandle" :> "ElementHandle")
    @@ ("playwright.accessibility.Accessibility" :> "Accessibility")
    @@ ("playwright.file_chooser.FileChooser" :> "FileChooser")
    @@ ("playwright.frame.Frame" :> "Frame")
    @@ ("playwright.worker.Worker" :> "Worker")
    @@ ("playwright.selectors.Selectors" :> "Selectors")
    @@ ("playwright.console_message.ConsoleMessage" :> "ConsoleMessage")
    @@ ("playwright.dialog.Dialog" :> "Dialog")
    @@ ("playwright.download.Download" :> "Download")
    @@ ("playwright.page.BindingCall" :> "BindingCall")
    @@ ("playwright.page.Page" :> "Page")
    @@ ("playwright.browser_context.BrowserContext" :> "BrowserContext")
    @@ ("playwright.browser.Browser" :> "Browser")
    @@ ("playwright.browser_server.BrowserServer" :> "BrowserServer")
    @@ ("playwright.browser_type.BrowserType" :> "BrowserType")
    @@ ("playwright.playwright.Playwright" :> "Playwright")
    @@ ("playwright.helper.Error" :> "Error")

HelperNames == {"playwright.helper.Error"}
\* The tokens that hold a comma, and those that hold a single quote.
CommaToks == {", "}
QuoteToks == {"<class '", "'>", "'a'", "'b'"}
HasHandle(tok) ==
    tok \in {"playwright.js_handle.JSHandle", "JSHandle",
             "playwright.element_handle.ElementHandle", "ElementHandle"}

Mentions(text, T) == \E i \in DOMAIN text : text[i] \in T
MentionsPlaywright(text) == Mentions(text, DOMAIN bare_of)
MentionsHelper(text) == Mentions(text, HelperNames)
MentionsCallable(text) == Mentions(text, {"typing.Callable["})
MentionsAny(text) == Mentions(text, {"typing.Any"})
MentionsHandle(text) == \E i \in DOMAIN text : HasHandle(text[i])
MentionsUnionLiteral(text) ==
    \E i \in DOMAIN text :
        /\ i < Len(text)
        /\ text[i] = "typing.Union["
        /\ text[i + 1] = "Literal["

\* Index of the first token of s at or after `from` that is in T, or 0.
FirstAt(s, from, T) ==
    LET hits == {i \in from..Len(s) : s[i] \in T}
    IN IF hits = {} THEN 0 ELSE CHOOSE i \in hits : \A k \in hits : i <= k

\* Whether ", NoneType]" starts at token j of s.
NoneArmAt(s, j) ==
    /\ j >= 1
    /\ j + 2 <= Len(s)
    /\ s[j] = ", "
    /\ s[j + 1] = "NoneType"
    /\ s[j + 2] = "]"

(***************************************************************************)
(* process_type's substitutions, each re.sub as a left-to-right scan that  *)
(* replaces every non-overlapping match and never rescans a replacement.   *)
(***************************************************************************)
\* re.sub(r"<class '([^']+)'>", r"\1", value)
RECURSIVE SubClass(_)
SubClass(s) ==
    IF s = <<>> THEN <<>>
    ELSE LET j == FirstAt(s, 2, QuoteToks)
         IN IF Head(s) = "<class '" /\ j > 2 /\ s[j] = "'>"
            THEN SubSeq(s, 2, j - 1) \o SubClass(SubSeq(s, j + 1, Len(s)))
            ELSE <<Head(s)>> \o SubClass(Tail(s))

\* re.sub(r"playwright\.helper\.", "", value)
StripHelperTok(tok) == IF tok \in HelperNames THEN bare_of[tok] ELSE tok
SubHelper(s) == [i \in DOMAIN s |-> StripHelperTok(s[i])]

\* re.sub(r"playwright\.[\w]+\.([\w]+)", r'"\1"', value)
RECURSIVE SubQuote(_)
SubQuote(s) ==
    IF s = <<>> THEN <<>>
    ELSE IF Head(s) \in DOMAIN bare_of
    THEN <<"\"", bare_of[Head(s)], "\"">> \o SubQuote(Tail(s))
    ELSE <<Head(s)>> \o SubQuote(Tail(s))

\* re.sub(r"typing.Literal", "Literal", value)
LiteralTok(tok) == IF tok = "typing.Literal[" THEN "Literal[" ELSE tok
SubLiteral(s) == [i \in DOMAIN s |-> LiteralTok(s[i])]

\* re.sub(r"typing.Union\[([^,]+), NoneType\]", r"\1", value)
RECURSIVE SubOptionalSingle(_)
SubOptionalSingle(s) ==
    IF s = <<>> THEN <<>>
    ELSE LET j == FirstAt(s, 2, CommaToks)
         IN IF Head(s) = "typing.Union[" /\ j > 2 /\ NoneArmAt(s, j)
            THEN SubSeq(s, 2, j - 1)
                 \o SubOptionalSingle(SubSeq(s, j + 3, Len(s)))
            ELSE <<Head(s)>> \o SubOptionalSingle(Tail(s))

\* re.sub(r"typing.Union\[(.*), NoneType\]", repl, value): the greedy group
\* runs from the first "typing.Union[" to the last ", NoneType]" after it, so
\* at most one match exists.  keepUnion selects r"typing.Union[\1]" over r"\1".
SubOptionalGreedy(s, keepUnion) ==
    LET i == FirstAt(s, 1, {"typing.Union["})
        ends == {j \in (i + 1)..Len(s) : NoneArmAt(s, j)}
    IN IF i = 0 \/ ends = {} THEN s
       ELSE LET j == CHOOSE e \in ends : \A k \in ends : k <= e
                group == SubSeq(s, i + 1, j - 1)
            IN SubSeq(s, 1, i - 1)
               \o (IF keepUnion
                   THEN <<"typing.Union[">> \o group \o <<"]">>
                   ELSE group)
               \o SubSeq(s, j + 3, Len(s))

ProcessParam(v) ==
    LET v5 == SubOptionalSingle(v)
    IN IF MentionsUnionLiteral(v5)
       THEN SubOptionalGreedy(v5, FALSE)
       ELSE SubOptionalGreedy(v5, TRUE)

\* process_type on the text of a type.
process_text(text, isParam) ==
    LET v1 == SubClass(text)
        v2 == IF MentionsHelper(v1) THEN SubHelper(v1) ELSE v1
        v3 == SubQuote(v2)
        v4 == SubLiteral(v3)
    IN IF isParam THEN ProcessParam(v4) ELSE v4

process_type(t, isParam) == process_text(str(t), isParam)

(***************************************************************************)
(* return_value: the marshalling wrap of a reflected return type.          *)
(***************************************************************************)
get_origin(t) ==
    CASE t.kind = "union" -> "typing.Union"
      [] t.kind = "list" -> "<class 'list'>"
      [] t.kind = "dict" -> "<class 'dict'>"
      [] t.kind = "callable" -> "<class 'collections.abc.Callable'>"
      [] t.kind = "literal" -> "typing.Literal"
      [] OTHER -> "None"

get_args(t) == IF t.kind \in {"class", "any"} THEN <<>> ELSE t.args

\* return_value with the namespace test made after the shape tests.
return_value_helper_last(t) ==
    IF /\ get_origin(t) = "typing.Union"
       /\ Len(get_args(t)) = 2
       /\ str(get_args(t)[2]) = <<"<class '", "NoneType", "'>">>
    THEN <<"mapping.from_impl_nullable(", ")">>
    ELSE IF get_origin(t) = "<class 'list'>"
    THEN <<"mapping.from_impl_list(", ")">>
    ELSE IF get_origin(t) = "<class 'dict'>"
    THEN <<"mapping.from_impl_dict(", ")">>
    ELSE IF ~MentionsPlaywright(str(t)) \/ MentionsHelper(str(t))
    THEN <<"mapping.from_maybe_impl(", ")">>
    ELSE <<"mapping.from_impl(", ")">>

\* return_value without the test for the helper namespace.
return_value_no_helper_test(t) ==
    IF ~MentionsPlaywright(str(t))
    THEN <<"mapping.from_maybe_impl(", ")">>
    ELSE IF /\ get_origin(t) = "typing.Union"
            /\ Len(get_args(t)) = 2
            /\ str(get_args(t)[2]) = <<"<class '", "NoneType", "'>">>
    THEN <<"mapping.from_impl_nullable(", ")">>
    ELSE IF get_origin(t) = "<class 'list'>"
    THEN <<"mapping.from_impl_list(", ")">>
    ELSE IF get_origin(t) = "<class 'dict'>"
    THEN <<"mapping.from_impl_dict(", ")">>
    ELSE <<"mapping.from_impl(", ")">>

return_value(t) ==
    IF ~MentionsPlaywright(str(t)) \/ MentionsHelper(str(t))
    THEN <<"mapping.from_maybe_impl(", ")">>
    ELSE IF /\ get_origin(t) = "typing.Union"
            /\ Len(get_args(t)) = 2
            /\ str(get_args(t)[2]) = <<"<class '", "NoneType", "'>">>
    THEN <<"mapping.from_impl_nullable(", ")">>
    ELSE IF get_origin(t) = "<class 'list'>"
    THEN <<"mapping.from_impl_list(", ")">>
    ELSE IF get_origin(t) = "<class 'dict'>"
    THEN <<"mapping.from_impl_dict(", ")">>
    ELSE <<"mapping.from_impl(", ")">>

(***************************************************************************)
(* Reflected methods.  A method is [params, ret]: the annotated parameters *)
(* after self, each [name, ann, default], and the return annotation.       *)
(* A default is [kind, text], text being str(default).                     *)
(***************************************************************************)
Empty == [kind |-> "empty", text |-> ""]
StrDefault == [kind |-> "str", text |-> "load"]
NoneDefault == [kind |-> "none", text |-> "None"]
TrueDefault == [kind |-> "bool", text |-> "True"]
ZeroDefault == [kind |-> "int", text |-> "0"]
Defaults == {Empty, StrDefault, NoneDefault, TrueDefault, ZeroDefault}

\* get_type_hints(func, globals()): the annotations in declaration order,
\* a None default making its annotation optional, then the "return" entry.
get_type_hints(f) ==
    [i \in DOMAIN f.params |->
        [name |-> f.params[i].name,
         type |-> IF f.params[i].default.kind = "none"
                  THEN Optional(f.params[i].ann)
                  ELSE f.params[i].ann]]
    \o <<[name |-> "return", type |-> f.ret]>>

\* inspect.signature(func).parameters[name].default
default_of(f, name) ==
    LET i == CHOOSE k \in DOMAIN f.params : f.params[k].name = name
    IN f.params[i].default

\* split = ",\n" + " " * indent
split(indent) == <<",\n">> \o [i \in 1..indent |-> " "]

\* sep.join(tokens)
RECURSIVE join(_, _)
join(sep, tokens) ==
    IF Len(tokens) = 0 THEN <<>>
    ELSE IF Len(tokens) = 1 THEN tokens[1]
    ELSE tokens[1] \o sep \o join(sep, Tail(tokens))

\* isinstance narrowed to the scalar defaults.
isinstance_object_scalar(d) == d.kind \in {"bool", "int"}

\* isinstance(default_value, object): every value is an object.
isinstance_object(d) == TRUE

\* render_default without the quotes around a string.
render_default_unquoted(d) ==
    IF isinstance_object(d)
    THEN [raised |-> FALSE, text |-> <<d.text>>]
    ELSE [raised |-> TRUE, text |-> <<>>]

\* Lines 77-82: the text of a present default, or the ValueError.
render_default(d) ==
    IF d.kind = "str"
    THEN [raised |-> FALSE, text |-> <<"\"", d.text, "\"">>]
    ELSE IF isinstance_object(d)
    THEN [raised |-> FALSE, text |-> <<d.text>>]
    ELSE [raised |-> TRUE, text |-> <<>>]

\* signature_token with the tests on the name made before the test for a
\* default.
signature_token_override_first(f, h) ==
    LET processed == process_type(h.type, TRUE)
        d == default_of(f, h.name)
    IN IF h.name = "contentScript"
       THEN <<h.name, ": ">> \o processed \o <<" = ", "False">>
       ELSE IF h.name = "arg"
       THEN <<h.name, ": ", "typing.Any">>
       ELSE IF d # Empty
       THEN <<h.name, ": ">> \o processed \o <<" = ">> \o render_default(d).text
       ELSE <<h.name, ": ">> \o processed

\* The token of one hint of signature's loop (lines 74-89).
signature_token(f, h) ==
    LET processed == process_type(h.type, TRUE)
        d == default_of(f, h.name)
    IN IF d # Empty
       THEN <<h.name, ": ">> \o processed \o <<" = ">> \o render_default(d).text
       ELSE IF h.name = "contentScript"
       THEN <<h.name, ": ">> \o processed \o <<" = ", "False">>
       ELSE IF h.name = "arg"
       THEN <<h.name, ": ", "typing.Any">>
       ELSE <<h.name, ": ">> \o processed

\* signature's list `tokens` after the loop over the hints h.
RECURSIVE signature_tokens(_, _)
signature_tokens(f, h) ==
    IF h = <<>> THEN <<>>
    ELSE IF Head(h).name = "return" THEN signature_tokens(f, Tail(h))
    ELSE <<signature_token(f, Head(h))>> \o signature_tokens(f, Tail(h))

\* Whether signature's loop reaches `raise ValueError`.
signature_raises(f) ==
    \E i \in DOMAIN f.params :
        /\ f.params[i].default # Empty
        /\ render_default(f.params[i].default).raised

signature(f, indent) ==
    IF signature_raises(f)
    THEN [raised |-> TRUE, tokens |-> <<>>, text |-> <<>>]
    ELSE LET tokens == <<<<"self">>>> \o signature_tokens(f, get_type_hints(f))
         IN [raised |-> FALSE, tokens |-> tokens,
             text |-> join(split(indent), tokens)]

\* arguments_token with the test for typing.Any and Handle made first.
arguments_token_any_first(h) ==
    LET value_str == str(h.type)
    IN IF MentionsAny(value_str) \/ MentionsHandle(value_str)
       THEN <<h.name, "=mapping.to_impl(", h.name, ")">>
       ELSE IF MentionsCallable(value_str)
       THEN <<h.name, "=self._wrap_handler(", h.name, ")">>
       ELSE <<h.name, "=", h.name>>

\* The token of one hint of arguments' loop (lines 98-106).
arguments_token(h) ==
    LET value_str == str(h.type)
    IN IF MentionsCallable(value_str)
       THEN <<h.name, "=self._wrap_handler(", h.name, ")">>
       ELSE IF MentionsAny(value_str) \/ MentionsHandle(value_str)
       THEN <<h.name, "=mapping.to_impl(", h.name, ")">>
       ELSE <<h.name, "=", h.name>>

\* arguments_tokens without the skip of the return entry.
RECURSIVE arguments_tokens_keep_return(_)
arguments_tokens_keep_return(h) ==
    IF h = <<>> THEN <<>>
    ELSE <<<<Head(h).name, "=", Head(h).name>>>>
         \o arguments_tokens_keep_return(Tail(h))

RECURSIVE arguments_tokens(_)
arguments_tokens(h) ==
    IF h = <<>> THEN <<>>
    ELSE IF Head(h).name = "return" THEN arguments_tokens(Tail(h))
    ELSE <<arguments_token(Head(h))>> \o arguments_tokens(Tail(h))

arguments(f, indent) ==
    LET tokens == arguments_tokens(get_type_hints(f))
    IN [tokens |-> tokens, text |-> join(split(indent), tokens)]

return_type(f) ==
    LET h == get_type_hints(f)
        i == CHOOSE k \in DOMAIN h : h[k].name = "return"
    IN process_type(h[i].type, FALSE)

\* short_name whose pattern never matches.
short_name_unmatched(t) == str(t)

\* short_name(t): the group of playwright\.[^.]+\.([^']+) found in str(t),
\* or str(t) when the pattern is not found.
short_name(t) ==
    LET text == str(t)
        i == FirstAt(text, 1, DOMAIN bare_of)
    IN IF i = 0 THEN text
       ELSE LET j == FirstAt(text, i + 1, QuoteToks)
                last == IF j = 0 THEN Len(text) ELSE j - 1
            IN <<bare_of[text[i]]>> \o SubSeq(text, i + 1, last)

(***************************************************************************)
(* The registry and the header (lines 138-207).                            *)
(***************************************************************************)
all_types ==
    <<Cls("playwright.network.Request"),
      Cls("playwright.network.Response"),
      Cls("playwright.network.Route"),
      Cls("playwright.input.Keyboard"),
      Cls("playwright.input.Mouse"),
      Cls("playwright.js_handle.JSHandle"),
      Cls("playwright.element_handle.ElementHandle"),
      Cls("playwright.accessibility.Accessibility"),
      Cls("playwright.file_chooser.FileChooser"),
      Cls("playwright.frame.Frame"),
      Cls("playwright.worker.Worker"),
      Cls("playwright.selectors.Selectors"),
      Cls("playwright.console_message.ConsoleMessage"),
      Cls("playwright.dialog.Dialog"),
      Cls("playwright.download.Download"),
      Cls("playwright.page.BindingCall"),
      Cls("playwright.page.Page"),
      Cls("playwright.browser_context.BrowserContext"),
      Cls("playwright.browser.Browser"),
      Cls("playwright.browser_server.BrowserServer"),
      Cls("playwright.browser_type.BrowserType"),
      Cls("playwright.playwright.Playwright")>>

\* The header block: the licence banner and the fixed imports.
header == [kind |-> "header", name |-> <<"import typing">>, methods |-> <<>>]

(***************************************************************************)
(* Inputs: the reflected methods the specifications draw from.             *)
(***************************************************************************)
ParamNames == {"arg", "contentScript", "selector"}
SigTypes ==
    {StrT, AnyT, JSHandleT, CallableT(<<StrT>>, NoneT),
     CallableT(<<AnyT>>, JSHandleT)}

\* The sequences of length n over S without a repeated element.
InjectiveSeqs(S, n) ==
    {q \in [1..n -> S] : \A i \in 1..n : \A j \in 1..n : q[i] = q[j] => i = j}

\* The method whose parameters have the given names, annotations and defaults.
Func(names, anns, defaults) ==
    [params |-> [i \in DOMAIN names |->
                    [name |-> names[i], ann |-> anns[i], default |-> defaults[i]]],
     ret |-> PageT]

Indents == {0, MaxIndent}

\* The methods a registered class may be reflected to have.
MethodNames == {"goto", "click", "_on_close"}
name_len == ("goto" :> 4) @@ ("click" :> 5) @@ ("_on_close" :> 9)
startswith_underscore(name) == name \in {"_on_close"}

SampleFuncs ==
    {[params |-> <<>>, ret |-> NoneT],
     [params |-> <<[name |-> "selector", ann |-> StrT, default |-> Empty],
                   [name |-> "arg", ann |-> AnyT, default |-> NoneDefault]>>,
      ret |-> Optional(JSHandleT)],
     [params |-> <<[name |-> "url", ann |-> StrT, default |-> StrDefault]>>,
      ret |-> ListT(PageT)]}

MethodLists(n) ==
    {[i \in 1..n |-> [name |-> c[1][i], func |-> c[2][i]]] :
        c \in InjectiveSeqs(MethodNames, n) \X [1..n -> SampleFuncs]}

DefaultMethods ==
    <<[name |-> "_on_close", func |-> [params |-> <<>>, ret |-> NoneT]],
      [name |-> "goto", func |-> [params |-> <<>>, ret |-> Optional(PageT)]]>>

(***************************************************************************)
(* The generator: the entry point main() of the sync and async scripts,    *)
(* which prints the header and then generate(t) for every t of all_types.  *)
(***************************************************************************)
\* One method block of generate(t).
method_block(m) ==
    [name |-> m.name,
     signature |-> signature(m.func, name_len[m.name]),
     return_type |-> return_type(m.func),
     arguments |-> arguments(m.func, name_len[m.name]).text,
     wrap |-> return_value(m.func.ret)]

\* The method blocks of the public methods ms of one class, in order.
RECURSIVE method_blocks(_)
method_blocks(ms) ==
    IF ms = <<>> THEN <<>>
    ELSE IF startswith_underscore(Head(ms).name) THEN method_blocks(Tail(ms))
    ELSE <<method_block(Head(ms))>> \o method_blocks(Tail(ms))

\* generate(t): the class block of the i-th registered class.
generate(i) ==
    [kind |-> "class", name |-> short_name(all_types[i]),
     methods |-> method_blocks(members[i])]

\* Whether rendering a block of generate(i) raises.
generate_raises(i) ==
    \E k \in DOMAIN members[i] :
        /\ ~startswith_underscore(members[i][k].name)
        /\ signature_raises(members[i][k].func)

(***************************************************************************)
(* Specification SpecFn: process_type and return_value on one type.        *)
(***************************************************************************)
NoFunc == [params |-> <<>>, ret |-> NoneT]
NoSig == [raised |-> FALSE, tokens |-> <<>>, text |-> <<>>]
NoArgs == [tokens |-> <<>>, text |-> <<>>]

InitFn ==
    /\ pc = "fn_start"
    /\ value \in TypesUpTo(MaxDepth)
    /\ param \in BOOLEAN
    /\ rendered = <<>>
    /\ wrap = <<>>
    /\ func = NoFunc
    /\ sig_out = NoSig
    /\ arg_out = NoArgs
    /\ indent_arg = 0
    /\ members = <<>>
    /\ idx = 0
    /\ output = <<>>

ProcessType ==
    /\ pc = "fn_start"
    /\ rendered' = process_type(value, param)
    /\ pc' = "fn_rendered"
    /\ UNCHANGED <<value, param, wrap, func, sig_out, arg_out, indent_arg,
                   members, idx, output>>

ReturnValue ==
    /\ pc = "fn_rendered"
    /\ wrap' = return_value(value)
    /\ pc' = "fn_done"
    /\ UNCHANGED <<value, param, rendered, func, sig_out, arg_out, indent_arg,
                   members, idx, output>>

NextFn == ProcessType \/ ReturnValue

SpecFn == InitFn /\ [][NextFn]_vars

(***************************************************************************)
(* Specification SpecSig: signature and arguments on one reflected method. *)
(***************************************************************************)
InitSig ==
    /\ pc = "sig_start"
    /\ value = NoneT
    /\ param = FALSE
    /\ rendered = <<>>
    /\ wrap = <<>>
    /\ \E n \in 0..MaxParams :
         \E names \in InjectiveSeqs(ParamNames, n) :
            \E anns \in [1..n -> SigTypes] :
               \E defaults \in [1..n -> Defaults] :
                  func = Func(names, anns, defaults)
    /\ sig_out = NoSig
    /\ arg_out = NoArgs
    /\ indent_arg \in Indents
    /\ members = <<>>
    /\ idx = 0
    /\ output = <<>>

Signature ==
    /\ pc = "sig_start"
    /\ sig_out' = signature(func, indent_arg)
    /\ pc' = IF sig_out'.raised THEN "sig_raised" ELSE "sig_rendered"
    /\ UNCHANGED <<value, param, rendered, wrap, func, arg_out, indent_arg,
                   members, idx, output>>

Arguments ==
    /\ pc = "sig_rendered"
    /\ arg_out' = arguments(func, indent_arg)
    /\ pc' = "sig_done"
    /\ UNCHANGED <<value, param, rendered, wrap, func, sig_out, indent_arg,
                   members, idx, output>>

NextSig == Signature \/ Arguments

SpecSig == InitSig /\ [][NextSig]_vars

(***************************************************************************)
(* Specification SpecGen: one run of the generator over the registry.      *)
(***************************************************************************)
InitGen ==
    /\ pc = "gen_start"
    /\ value = NoneT
    /\ param = FALSE
    /\ rendered = <<>>
    /\ wrap = <<>>
    /\ func = NoFunc
    /\ sig_out = NoSig
    /\ arg_out = NoArgs
    /\ indent_arg = 0
    /\ \E ms \in UNION {MethodLists(n) : n \in 0..MaxMethods} :
         \E odd \in BOOLEAN :
            members = [i \in DOMAIN all_types |->
                          IF (i % 2 = 1) = odd THEN ms ELSE DefaultMethods]
    /\ idx = 0
    /\ output = <<>>

\* print(header)
PrintHeader ==
    /\ pc = "gen_start"
    /\ output' = Append(output, header)
    /\ idx' = 1
    /\ pc' = "gen_classes"
    /\ UNCHANGED <<value, param, rendered, wrap, func, sig_out, arg_out,
                   indent_arg, members>>

\* One iteration of `for t in all_types: generate(t)`.
Generate ==
    /\ pc = "gen_classes"
    /\ idx <= Len(all_types)
    /\ IF generate_raises(idx)
       THEN /\ pc' = "gen_raised"
            /\ UNCHANGED <<idx, output>>
       ELSE /\ output' = Append(output, generate(idx))
            /\ idx' = idx + 1
            /\ pc' = "gen_classes"
    /\ UNCHANGED <<value, param, rendered, wrap, func, sig_out, arg_out,
                   indent_arg, members>>

\* The loop is exhausted and main() returns.
Finish ==
    /\ pc = "gen_classes"
    /\ idx > Len(all_types)
    /\ pc' = "gen_done"
    /\ UNCHANGED <<value, param, rendered, wrap, func, sig_out, arg_out,
                   indent_arg, members, idx, output>>

NextGen == PrintHeader \/ Generate \/ Finish

\* A step of main(): the run is at a statement and moves on, to the next
\* class, to the end, or to the exception that ends it.
MainStep ==
    /\ pc \in {"gen_start", "gen_classes"}
    /\ pc' \in {"gen_classes", "gen_done", "gen_raised"}
    /\ idx' \in {idx, idx + 1}
    /\ <<pc', idx'>> # <<pc, idx>>

\* main() is a single thread that nothing suspends: while it is at a
\* statement it takes a step.
SpecGen == InitGen /\ [][NextGen]_vars /\ WF_<<pc, idx>>(MainStep)

(***************************************************************************)
(* Properties of return_value (SpecFn).                                    *)
(***************************************************************************)
FromMaybeImpl == <<"mapping.from_maybe_impl(", ")">>
FromImplNullable == <<"mapping.from_impl_nullable(", ")">>
FromImplList == <<"mapping.from_impl_list(", ")">>
FromImplDict == <<"mapping.from_impl_dict(", ")">>
FromImpl == <<"mapping.from_impl(", ")">>
Wraps == <<FromMaybeImpl, FromImplNullable, FromImplList, FromImplDict, FromImpl>>

\* The names of the classes that occur in a type.
RECURSIVE ClassNames(_)
ClassNames(t) ==
    IF t.kind = "class" THEN {t.name}
    ELSE UNION {ClassNames(t.args[i]) : i \in DOMAIN t.args}

InternalNames(t) == ClassNames(t) \cap DOMAIN bare_of
NonHelperNames(t) == InternalNames(t) \ HelperNames

\* The rows of the decision table, on the shape of the type.
FirstRow(t) ==
    IF InternalNames(t) = {} \/ InternalNames(t) \cap HelperNames # {} THEN 1
    ELSE IF t.kind = "union" /\ Len(t.args) = 2 /\ t.args[2] = NoneT THEN 2
    ELSE IF t.kind = "list" THEN 3
    ELSE IF t.kind = "dict" THEN 4
    ELSE 5

C2_PassThroughOnlyHelper ==
    pc = "fn_done" => (wrap = FromMaybeImpl <=> NonHelperNames(value) = {})

\* C2 as amended: the pass-through wrap is selected exactly when the type names
\* no internal class or names a helper class, whatever else it names; every
\* other type gets one of the four object-wrapping marshals.
C2_PassThroughAnyHelper ==
    pc = "fn_done" =>
        /\ wrap = FromMaybeImpl <=>
              (InternalNames(value) = {} \/ InternalNames(value) \cap HelperNames # {})
        /\ wrap # FromMaybeImpl =>
              wrap \in {FromImplNullable, FromImplList, FromImplDict, FromImpl}

\* A type naming a helper class and an implementation class is passed through.
C2_Witness ==
    /\ pc = "fn_done"
    /\ InternalNames(value) \cap HelperNames # {}
    /\ NonHelperNames(value) # {}
    /\ wrap = FromMaybeImpl

(***************************************************************************)
(* Properties of process_type (SpecFn).                                    *)
(***************************************************************************)
\* value is "T or absence": a union whose last arm is None.
IsOptional(t) == t.kind = "union" /\ t.args[Len(t.args)] = NoneT

\* The T of a "T or absence".
Present(t) ==
    IF Len(t.args) = 2 THEN t.args[1]
    ELSE UnionT(SubSeq(t.args, 1, Len(t.args) - 1))

\* Whether None occurs as an arm of a union somewhere in t.
RECURSIVE HasAbsentArm(_)
HasAbsentArm(t) ==
    \/ t.kind = "union" /\ \E i \in DOMAIN t.args : t.args[i] = NoneT
    \/ \E i \in DOMAIN t.args : HasAbsentArm(t.args[i])

\* C3: a parameter of type "T or absence" renders as T's rendered text, T's
\* literal alternatives kept when T is a literal-union, and a type without an
\* absence arm renders as it does for a return type.
C3_OptionalCollapseLaw ==
    (pc # "fn_start" /\ param) =>
        /\ IsOptional(value) =>
              rendered = process_type(Present(value), TRUE)
        /\ ~HasAbsentArm(value) => rendered = process_type(value, FALSE)

(***************************************************************************)
(* Properties of signature and arguments (SpecSig).                        *)
(***************************************************************************)
SigRendered == pc \in {"sig_rendered", "sig_done"}

\* The parts of a signature token `name: type = default`.
TypePart(tok) ==
    LET k == FirstAt(tok, 1, {" = "})
    IN SubSeq(tok, 3, IF k = 0 THEN Len(tok) ELSE k - 1)

DefaultPart(tok) ==
    LET k == FirstAt(tok, 1, {" = "})
    IN IF k = 0 THEN <<>> ELSE SubSeq(tok, k + 1, Len(tok))

\* The reflected type of the i-th parameter, and its text as a parameter type.
HintType(i) == get_type_hints(func)[i].type
GenericType(i) == process_type(HintType(i), TRUE)

\* The token of the i-th parameter in signature's result.
SigToken(i) == sig_out.tokens[i + 1]

\* C4 as stated: whatever the reflected type and default, contentScript is
\* rendered with default False and arg with the type typing.Any.
C4_OverridesAlways ==
    SigRendered =>
        \A i \in DOMAIN func.params :
            /\ func.params[i].name = "contentScript" =>
                  DefaultPart(SigToken(i)) = <<"False">>
            /\ func.params[i].name = "arg" =>
                  TypePart(SigToken(i)) = <<"typing.Any">>

\* C4 as amended: a contentScript without a reflected default is rendered with
\* default False, and an arg without a reflected default with the type
\* typing.Any and no default; with a reflected default either is rendered as
\* any other parameter, with its own type text and its own default.
C4_OverridesWithoutDefault ==
    SigRendered =>
        \A i \in DOMAIN func.params :
            LET p == func.params[i]
            IN /\ (p.name = "contentScript" /\ p.default = Empty) =>
                     /\ DefaultPart(SigToken(i)) = <<"False">>
                     /\ TypePart(SigToken(i)) = GenericType(i)
               /\ (p.name = "arg" /\ p.default = Empty) =>
                     SigToken(i) = <<"arg", ": ", "typing.Any">>
               /\ (p.name \in {"contentScript", "arg"} /\ p.default # Empty) =>
                     /\ TypePart(SigToken(i)) = GenericType(i)
                     /\ DefaultPart(SigToken(i)) \in {<<p.default.text>>,
                                                     <<"\"", p.default.text, "\"">>}

\* A contentScript reflected with default True keeps it, beside an arg
\* without a default.
C4_Witness ==
    /\ SigRendered
    /\ \E i \in DOMAIN func.params :
          /\ func.params[i].name = "contentScript"
          /\ func.params[i].default = TrueDefault
          /\ DefaultPart(SigToken(i)) = <<"True">>
    /\ \E i \in DOMAIN func.params :
          /\ func.params[i].name = "arg"
          /\ func.params[i].default = Empty
          /\ func.params[i].ann = StrT

\* The form arguments is to give a parameter, by the ordered test on its text.
ExpectedForm(text) ==
    IF Mentions(text, {"typing.Callable["}) THEN "=self._wrap_handler("
    ELSE IF Mentions(text, {"typing.Any"}) \/ (\E k \in DOMAIN text : HasHandle(text[k]))
    THEN "=mapping.to_impl("
    ELSE "="

\* C8: arguments gives each parameter exactly one form, chosen by the ordered
\* test Callable, then typing.Any or Handle, then the plain name; the return
\* entry gives no token.
C8_ArgumentForms ==
    pc = "sig_done" =>
        /\ Len(arg_out.tokens) = Len(func.params)
        /\ \A i \in DOMAIN func.params :
              LET n == func.params[i].name
                  form == ExpectedForm(str(HintType(i)))
              IN arg_out.tokens[i] =
                    IF form = "=" THEN <<n, "=", n>> ELSE <<n, form, n, ")">>
        /\ \A i \in DOMAIN arg_out.tokens : arg_out.tokens[i][1] # "return"

\* A callable whose text also mentions typing.Any and a Handle is wrapped as
\* a handler.
C8_Witness ==
    /\ pc = "sig_done"
    /\ \E i \in DOMAIN func.params :
          /\ func.params[i].ann = CallableT(<<AnyT>>, JSHandleT)
          /\ arg_out.tokens[i][2] = "=self._wrap_handler("

\* C9: a present default is rendered as `name: type = literal`, a string in
\* quotes and any other value by its text, and signature never raises.
C9_DefaultRendering ==
    pc # "sig_start" =>
        /\ pc # "sig_raised"
        /\ ~sig_out.raised
        /\ \A i \in DOMAIN func.params :
              LET p == func.params[i]
                  literal == IF p.default.kind = "str"
                             THEN <<"\"", p.default.text, "\"">>
                             ELSE <<p.default.text>>
              IN p.default # Empty =>
                    SigToken(i) = <<p.name, ": ">> \o GenericType(i)
                                     \o <<" = ">> \o literal

\* A method with a string default and a None default has been rendered.
C9_Witness ==
    /\ pc = "sig_done"
    /\ \E i \in DOMAIN func.params : func.params[i].default = StrDefault
    /\ \E i \in DOMAIN func.params : func.params[i].default = NoneDefault

\* The number of separators in a joined text, and whether each is a comma and
\* a newline followed by exactly n spaces and then something else.
Separators(text) == {k \in DOMAIN text : text[k] = ",\n"}
WellSeparated(text, n) ==
    \A k \in Separators(text) :
        /\ k + n + 1 <= Len(text)
        /\ \A d \in 1..n : text[k + d] = " "
        /\ text[k + n + 1] # " "

\* C10: signature gives self and one token per parameter, arguments one
\* keyword token per parameter, with the same names in the same order, both
\* joined by comma, newline and indent spaces.
C10_HeaderCallAligned ==
    pc = "sig_done" =>
        /\ sig_out.tokens[1] = <<"self">>
        /\ [i \in 1..(Len(sig_out.tokens) - 1) |-> sig_out.tokens[i + 1][1]]
              = [i \in DOMAIN func.params |-> func.params[i].name]
        /\ [i \in DOMAIN arg_out.tokens |-> arg_out.tokens[i][1]]
              = [i \in DOMAIN func.params |-> func.params[i].name]
        /\ \A i \in DOMAIN arg_out.tokens :
              arg_out.tokens[i][2] \in {"=", "=mapping.to_impl(", "=self._wrap_handler("}
        /\ Cardinality(Separators(sig_out.text)) = Len(func.params)
        /\ WellSeparated(sig_out.text, indent_arg)
        /\ Cardinality(Separators(arg_out.text)) + 1 = Len(arg_out.tokens)
              \/ Len(arg_out.tokens) = 0
        /\ WellSeparated(arg_out.text, indent_arg)

\* Two parameters rendered with a non-zero indent.
C10_Witness ==
    /\ pc = "sig_done"
    /\ Len(func.params) = 2
    /\ indent_arg > 0
    /\ Len(arg_out.tokens) = 2

(***************************************************************************)
(* Properties of the generator (SpecGen).                                  *)
(***************************************************************************)
\* The name under which the i-th registered class is to be declared.
DeclaredName(i) == <<bare_of[all_types[i].name]>>

\* The names of the public methods among ms, in order.
RECURSIVE PublicNames(_)
PublicNames(ms) ==
    IF ms = <<>> THEN <<>>
    ELSE IF Head(ms).name \in {"goto", "click"}
    THEN <<Head(ms).name>> \o PublicNames(Tail(ms))
    ELSE PublicNames(Tail(ms))

OutputInOrder ==
    /\ Len(output) <= 1 + Len(all_types)
    /\ output # <<>> => output[1] = header
    /\ \A k \in 2..Len(output) :
          /\ k - 1 \in DOMAIN all_types
          /\ output[k].kind = "class"
          /\ output[k].name = DeclaredName(k - 1)
          /\ [j \in DOMAIN output[k].methods |-> output[k].methods[j].name]
                = PublicNames(members[k - 1])
    /\ pc = "gen_done" => Len(output) = 1 + Len(all_types)

\* C5: the output is the header block and then one block per registered
\* class, in registry order, each holding every public method of its class
\* once and in discovery order; a completed run has emitted every class, and
\* no step changes a block that was already emitted.
C5_CompleteInOrder ==
    /\ []OutputInOrder
    /\ [][/\ Len(output') >= Len(output)
          /\ SubSeq(output', 1, Len(output)) = output]_vars

\* A completed run whose classes have two public methods and a private one.
C5_Witness ==
    /\ pc = "gen_done"
    /\ Len(members[1]) = 2
    /\ Len(output[2].methods) = 2
    /\ Len(output[3].methods) = 1

\* The run has returned and its output declares every registered class.
CompletedDeclaringAll ==
    /\ pc = "gen_done"
    /\ output # <<>>
    /\ \A i \in DOMAIN all_types :
          \E k \in DOMAIN output :
             output[k].kind = "class" /\ output[k].name = DeclaredName(i)

==========================================================================
